---- MODULE Spec2Model ----
(***************************************************************************)
(* safe_eval of the calculator (src/scientific.py): the desugaring pass    *)
(* that rewrites `^` and postfix `!`, ast.parse of the rewritten text and  *)
(* EvalVisitor's walk of the tree against ALLOWED_OPERATORS / MATH_FUNCS.  *)
(*                                                                         *)
(* A Python str is a sequence of one-character strings; indices named as   *)
(* in the source (i, j, k) are 0-based, as in the source.                  *)
(***************************************************************************)
EXTENDS Integers, Sequences, FiniteSets, TLC

\* Longest input drawn character by character.
MaxLen == 4
\* Most fragments (operands, names, operators) concatenated into an input.
MaxFrags == 3
\* Largest magnitude of an integer the model keeps exactly.
MaxInt == 1000

(***************************************************************************)
(* Python str primitives                                                   *)
(***************************************************************************)
Digits == {"0", "1", "2", "3", "4", "5", "6", "7", "8", "9"}

Letters ==
    {"a", "b", "c", "d", "e", "f", "g", "h", "i", "j", "k", "l", "m",
     "n", "o", "p", "q", "r", "s", "t", "u", "v", "w", "x", "y", "z"}

\* str.isalnum() of one character.
IsAlnum(c) == c \in Digits \cup Letters

\* What indexing a str out of range raises.
IndexError == "IndexError"

\* s[k]: a negative k counts from the end; out of range raises.
PyIndex(s, k) ==
    IF k >= 0 /\ k < Len(s) THEN s[k + 1]
    ELSE IF k < 0 /\ k + Len(s) >= 0 THEN s[k + Len(s) + 1]
    ELSE IndexError

\* A slice bound, as Python normalises it against the length n.
SliceBound(b, n) ==
    IF b < 0 THEN (IF b + n < 0 THEN 0 ELSE b + n)
    ELSE IF b > n THEN n ELSE b

\* s[lo:hi]; a slice never raises.
PySlice(s, lo, hi) ==
    LET a == SliceBound(lo, Len(s))
        b == SliceBound(hi, Len(s))
    IN  IF a >= b THEN << >> ELSE SubSeq(s, a + 1, b)

\* The text f'factorial...' starts with.
FactorialName == <<"f", "a", "c", "t", "o", "r", "i", "a", "l">>

\* A replace that finds nothing to replace.
ReplacePowIdentity(s) == s

\* expr.replace('^', '**')
RECURSIVE ReplacePow(_)
ReplacePow(s) ==
    IF s = << >> THEN << >>
    ELSE IF Head(s) = "^" THEN <<"*", "*">> \o ReplacePow(Tail(s))
    ELSE <<Head(s)>> \o ReplacePow(Tail(s))

(***************************************************************************)
(* The two backward scans of the `!` branch.  A scan yields the k it stops *)
(* at, or raised when an index it reads is out of range.                   *)
(***************************************************************************)
\* while k >= 0: ... k -= 1, breaking on the `(` that brings depth to 0.
RECURSIVE ParenScan(_, _, _)
ParenScan(out, k, depth) ==
    IF ~(k >= 0) THEN [raised |-> FALSE, k |-> k]
    ELSE LET c == PyIndex(out, k) IN
         IF c = IndexError THEN [raised |-> TRUE, k |-> k]
         ELSE IF c = ")" THEN ParenScan(out, k - 1, depth + 1)
         ELSE IF c = "(" THEN
              IF depth - 1 = 0 THEN [raised |-> FALSE, k |-> k]
              ELSE ParenScan(out, k - 1, depth - 1)
         ELSE ParenScan(out, k - 1, depth)

\* while k >= 0 and (out[k].isalnum() or out[k] == '.' or out[k] == '_')
RECURSIVE TokenScan(_, _)
TokenScan(out, k) ==
    IF ~(k >= 0) THEN [raised |-> FALSE, k |-> k]
    ELSE LET c == PyIndex(out, k) IN
         IF c = IndexError THEN [raised |-> TRUE, k |-> k]
         ELSE IF IsAlnum(c) \/ c = "." \/ c = "_" THEN TokenScan(out, k - 1)
         ELSE [raised |-> FALSE, k |-> k]

\* A rewrite that puts a second pair of parentheses around the operand.
ParenRewriteWrapped(out, k) ==
    LET j == Len(out) - 1
        token == PySlice(out, k, j + 1)
    IN  PySlice(out, 0, k) \o FactorialName \o <<"(">> \o token \o <<")">>

\* out = out[:k] + f'factorial{token}' with token = out[k: j + 1]
ParenRewrite(out, k) ==
    LET j == Len(out) - 1
        token == PySlice(out, k, j + 1)
    IN  PySlice(out, 0, k) \o FactorialName \o token

\* out = out[:k+1] + f'factorial({token})' with token = out[k+1: j+1]
TokenRewrite(out, k) ==
    LET j == Len(out) - 1
        token == PySlice(out, k + 1, j + 1)
    IN  PySlice(out, 0, k + 1) \o FactorialName \o <<"(">> \o token \o <<")">>

\* The whole `if ch == '!':` branch on the text emitted so far.
Factorial(out) ==
    LET j == Len(out) - 1 IN
    IF j >= 0 /\ PyIndex(out, j) = ")"
    THEN LET s == ParenScan(out, j, 0) IN
         [raised |-> s.raised, out |-> ParenRewrite(out, s.k)]
    ELSE LET s == TokenScan(out, j) IN
         [raised |-> s.raised, out |-> TokenRewrite(out, s.k)]

(***************************************************************************)
(* Values an evaluation can produce.  Python's int is unbounded and its    *)
(* float is a binary64; the model keeps exactly the integers of magnitude  *)
(* up to MaxInt and the floats that are dyadic rationals num/den with a    *)
(* small denominator (on which binary64 arithmetic is exact), and keeps    *)
(* the rest abstractly:                                                    *)
(*   int      num         an int, exactly                                  *)
(*   float    num/den     a float, exactly                                 *)
(*   bigint   num = sign  an int above MaxInt in magnitude that fits a C   *)
(*                        long                                             *)
(*   hugeint  num = sign  an int that does not fit a C long                *)
(*   num                  some other number (an int or a float)            *)
(*   func     name        a callable of MATH_FUNCS                         *)
(*   ellipsis             the constant `...`                               *)
(*   err      err         an exception raised out of safe_eval             *)
(*   unknown              the model does not determine the outcome         *)
(***************************************************************************)
V(kind, num, den, name, err) ==
    [kind |-> kind, num |-> num, den |-> den, name |-> name, err |-> err]

BigInt(sign) == V("bigint", sign, 1, << >>, "")
HugeInt(sign) == V("hugeint", sign, 1, << >>, "")
\* The int n, of magnitude far below a C long's range.
IntV(n) ==
    IF n > MaxInt THEN BigInt(1)
    ELSE IF n < -MaxInt THEN BigInt(-1)
    ELSE V("int", n, 1, << >>, "")
SomeNum == V("num", 0, 1, << >>, "")
FuncV(name) == V("func", 0, 1, name, "")
EllipsisV == V("ellipsis", 0, 1, << >>, "")
Raise(err) == V("err", 0, 1, << >>, err)
Unknown == V("unknown", 0, 1, << >>, "")

Abs(n) == IF n < 0 THEN -n ELSE n

RECURSIVE Gcd(_, _)
Gcd(a, b) == IF b = 0 THEN a ELSE Gcd(b, a % b)

\* Denominators of the floats kept exactly.
DyadicDens == {1, 2, 4, 8}

\* The float num/den (den > 0): exact when it is a small dyadic rational.
FloatV(num, den) ==
    LET g == Gcd(Abs(num), den)
        n == num \div g
        d == den \div g
    IN  IF d \in DyadicDens /\ Abs(n) <= MaxInt * d
        THEN V("float", n, d, << >>, "")
        ELSE SomeNum

IsNumber(v) == v.kind \in {"int", "float", "bigint", "hugeint", "num"}
IsExact(v) == v.kind \in {"int", "float"}
IsFailure(v) == v.kind = "err"
\* An exact zero: 0 or 0.0.
IsZero(v) == IsExact(v) /\ v.num = 0

(***************************************************************************)
(* ast.parse(expr, mode='eval'), first half: the tokens of the text.       *)
(* Positions are 1-based; the character past the end reads as "".          *)
(* Not modelled, because no text the model evaluates holds them: spaces,   *)
(* string quotes, `#`, the e/j suffixes and the 0x/0o/0b prefixes of       *)
(* numbers, keywords, and the operators outside + - * / % ** // ( ) . ,    *)
(***************************************************************************)
At(s, p) == IF p >= 1 /\ p <= Len(s) THEN s[p] ELSE ""

IsNameStart(c) == c \in Letters \/ c = "_"
IsNameChar(c) == c \in Letters \/ c \in Digits \/ c = "_"

DigitVal(c) ==
    CASE c = "0" -> 0 [] c = "1" -> 1 [] c = "2" -> 2 [] c = "3" -> 3
      [] c = "4" -> 4 [] c = "5" -> 5 [] c = "6" -> 6 [] c = "7" -> 7
      [] c = "8" -> 8 [] c = "9" -> 9

\* The end of the name that starts at p.
RECURSIVE NameEnd(_, _)
NameEnd(s, p) == IF IsNameChar(At(s, p + 1)) THEN NameEnd(s, p + 1) ELSE p

\* A run of digits from p (a digit), single underscores allowed between
\* digits: the last position of the run, its digits, and whether it is
\* well formed (an underscore is followed by a digit).
RECURSIVE DigitRun(_, _, _)
DigitRun(s, p, digs) ==
    LET d == Append(digs, At(s, p))
        c == At(s, p + 1)
    IN  IF c \in Digits THEN DigitRun(s, p + 1, d)
        ELSE IF c = "_" THEN
             IF At(s, p + 2) \in Digits THEN DigitRun(s, p + 2, d)
             ELSE [ok |-> FALSE, end |-> p, digs |-> d]
        ELSE [ok |-> TRUE, end |-> p, digs |-> d]

\* 10^n, and the value of a run of digits, both capped just above what the
\* model keeps exactly.
Cap == 10 * (MaxInt + 1)
Capped(n) == IF n > Cap THEN Cap ELSE n

RECURSIVE DigitsValue(_, _)
DigitsValue(digs, acc) ==
    IF digs = << >> THEN acc
    ELSE DigitsValue(Tail(digs), Capped(10 * acc + DigitVal(Head(digs))))

RECURSIVE Pow10(_)
Pow10(n) == IF n = 0 THEN 1 ELSE Capped(10 * Pow10(n - 1))

\* The value of the literal with integer digits ip and fraction digits fp.
FloatLiteral(ip, fp) ==
    LET whole == DigitsValue(ip, 0)
        frac == DigitsValue(fp, 0)
        scale == Pow10(Len(fp))
    IN  IF whole > MaxInt \/ scale >= Cap \/ frac >= Cap
        THEN SomeNum
        ELSE FloatV(whole * scale + frac, scale)

\* Every int of at most this many digits fits a C long (64 bits).
LongDigits == 18

\* The value of the integer literal with digits digs.
IntLiteral(digs) ==
    LET n == DigitsValue(digs, 0) IN
    IF n <= MaxInt THEN IntV(n)
    ELSE IF Len(digs) <= LongDigits THEN BigInt(1)
    ELSE IF Len(digs) > LongDigits + 1 THEN HugeInt(1)
    ELSE SomeNum

NumTok(v, end) == [ok |-> TRUE, t |-> "NUMBER", v |-> v, id |-> << >>, end |-> end]
NameTok(id, end) == [ok |-> TRUE, t |-> "NAME", v |-> Unknown, id |-> id, end |-> end]
OpTok(op, end) == [ok |-> TRUE, t |-> op, v |-> Unknown, id |-> << >>, end |-> end]
BadTok == [ok |-> FALSE, t |-> "ERRORTOKEN", v |-> Unknown, id |-> << >>, end |-> 0]

\* The number ends at `end`: an identifier character right after it is
\* "invalid decimal literal".
EndOfNumber(s, v, end) ==
    IF IsNameStart(At(s, end + 1)) THEN BadTok ELSE NumTok(v, end)

\* The fraction of a number whose `.` is at position dot.
Fraction(s, ip, dot) ==
    IF At(s, dot + 1) \in Digits
    THEN LET f == DigitRun(s, dot + 1, << >>) IN
         IF ~f.ok THEN BadTok
         ELSE EndOfNumber(s, FloatLiteral(ip, f.digs), f.end)
    ELSE EndOfNumber(s, FloatLiteral(ip, << >>), dot)

\* The number that starts with the digit at p.
Number(s, p) ==
    LET r == DigitRun(s, p, << >>) IN
    IF ~r.ok THEN BadTok
    ELSE IF At(s, r.end + 1) = "." THEN Fraction(s, r.digs, r.end + 1)
    ELSE IF At(s, p) = "0" /\ \E n \in 1..Len(r.digs) : r.digs[n] # "0"
         THEN BadTok   \* leading zeros in a decimal integer literal
    ELSE EndOfNumber(s, IntLiteral(r.digs), r.end)

\* The token that starts at p.
TokenAt(s, p) ==
    LET c == At(s, p)
        c1 == At(s, p + 1)
    IN  IF c \in Digits THEN Number(s, p)
        ELSE IF c = "." /\ c1 \in Digits THEN Fraction(s, << >>, p)
        ELSE IF c = "." /\ c1 = "." /\ At(s, p + 2) = "." THEN OpTok("...", p + 2)
        ELSE IF IsNameStart(c)
             THEN LET e == NameEnd(s, p) IN NameTok(SubSeq(s, p, e), e)
        ELSE IF c = "*" /\ c1 = "*" THEN OpTok("**", p + 1)
        ELSE IF c = "/" /\ c1 = "/" THEN OpTok("//", p + 1)
        ELSE IF c \in {"+", "-", "*", "/", "%", "(", ")", ".", ","} THEN OpTok(c, p)
        ELSE BadTok

RECURSIVE TokensFrom(_, _, _)
TokensFrom(s, p, toks) ==
    IF p > Len(s) THEN [ok |-> TRUE, toks |-> toks]
    ELSE LET t == TokenAt(s, p) IN
         IF ~t.ok THEN [ok |-> FALSE, toks |-> toks]
         ELSE TokensFrom(s, t.end + 1, Append(toks, t))

Tokenize(s) == TokensFrom(s, 1, << >>)

(***************************************************************************)
(* ast.parse, second half: the expression grammar over the tokens.         *)
(*   sum:     term (('+' | '-') term)*                                     *)
(*   term:    factor (('*' | '/' | '//' | '%') factor)*                    *)
(*   factor:  ('+' | '-') factor | power                                   *)
(*   power:   primary ['**' factor]                                        *)
(*   primary: atom ('.' NAME | '(' [argument] ')')*                        *)
(*   atom:    NAME | NUMBER | '...' | '(' ')' | '(' sum ')'                *)
(*   argument: sum | '*' sum | '**' sum                                    *)
(* A parse yields the node and the position of the next token.             *)
(***************************************************************************)
NoNode == [type |-> "None"]
Constant(v) == [type |-> "Constant", value |-> v]
Name(id) == [type |-> "Name", id |-> id]
BinOp(left, op, right) == [type |-> "BinOp", left |-> left, op |-> op, right |-> right]
UnaryOp(op, operand) == [type |-> "UnaryOp", op |-> op, operand |-> operand]
Call(func, args, keywords) ==
    [type |-> "Call", func |-> func, args |-> args, keywords |-> keywords]
Attribute(value, attr) == [type |-> "Attribute", value |-> value, attr |-> attr]
Tuple == [type |-> "Tuple"]
Starred(value) == [type |-> "Starred", value |-> value]

Parsed(node, p) == [ok |-> TRUE, node |-> node, p |-> p]
SyntaxError == [ok |-> FALSE, node |-> NoNode, p |-> 0]

Tok(toks, p) == IF p <= Len(toks) THEN toks[p].t ELSE "ENDMARKER"

\* The ast operator class of an operator token.
BinOpOf(t) ==
    CASE t = "+" -> "Add" [] t = "-" -> "Sub" [] t = "*" -> "Mult"
      [] t = "/" -> "Div" [] t = "//" -> "FloorDiv" [] t = "%" -> "Mod"
      [] t = "**" -> "Pow"
UnaryOpOf(t) == CASE t = "+" -> "UAdd" [] t = "-" -> "USub"

\* The node of a binary operation whose operator is the token at l.p, when
\* its right operand r parsed.
BinOpStep(toks, l, r) ==
    IF ~r.ok THEN SyntaxError
    ELSE Parsed(BinOp(l.node, BinOpOf(Tok(toks, l.p)), r.node), r.p)

\* The node of the unary operation whose operator is the token at p.
UnaryOpStep(toks, p, e) ==
    IF ~e.ok THEN SyntaxError
    ELSE Parsed(UnaryOp(UnaryOpOf(Tok(toks, p)), e.node), e.p)

\* The expression e when the token after it is the closing parenthesis.
Closed(toks, e) == e.ok /\ Tok(toks, e.p) = ")"

\* The call of f.node whose argument e was written after the token t.
CallStep(toks, f, t, e) ==
    IF ~Closed(toks, e) THEN SyntaxError
    ELSE IF t = "*" THEN Parsed(Call(f.node, <<Starred(e.node)>>, 0), e.p + 1)
    ELSE IF t = "**" THEN Parsed(Call(f.node, << >>, 1), e.p + 1)
    ELSE Parsed(Call(f.node, <<e.node>>, 0), e.p + 1)

\* The parenthesised expression e.
GroupStep(toks, e) ==
    IF ~Closed(toks, e) THEN SyntaxError ELSE Parsed(e.node, e.p + 1)

RECURSIVE ParseSum(_, _), SumRest(_, _), ParseTerm(_, _), TermRest(_, _),
          ParseFactor(_, _), ParsePower(_, _), PowerRest(_, _),
          ParsePrimary(_, _), Trailers(_, _), ParseAtom(_, _), ParseCall(_, _)

ParseSum(toks, p) == SumRest(toks, ParseTerm(toks, p))

SumRest(toks, l) ==
    IF ~l.ok THEN SyntaxError
    ELSE IF Tok(toks, l.p) \in {"+", "-"}
    THEN SumRest(toks, BinOpStep(toks, l, ParseTerm(toks, l.p + 1)))
    ELSE l

ParseTerm(toks, p) == TermRest(toks, ParseFactor(toks, p))

TermRest(toks, l) ==
    IF ~l.ok THEN SyntaxError
    ELSE IF Tok(toks, l.p) \in {"*", "/", "//", "%"}
    THEN TermRest(toks, BinOpStep(toks, l, ParseFactor(toks, l.p + 1)))
    ELSE l

ParseFactor(toks, p) ==
    IF Tok(toks, p) \in {"+", "-"}
    THEN UnaryOpStep(toks, p, ParseFactor(toks, p + 1))
    ELSE ParsePower(toks, p)

ParsePower(toks, p) == PowerRest(toks, ParsePrimary(toks, p))

PowerRest(toks, b) ==
    IF ~b.ok THEN SyntaxError
    ELSE IF Tok(toks, b.p) = "**"
    THEN BinOpStep(toks, b, ParseFactor(toks, b.p + 1))
    ELSE b

ParsePrimary(toks, p) == Trailers(toks, ParseAtom(toks, p))

Trailers(toks, a) ==
    IF ~a.ok THEN SyntaxError
    ELSE IF Tok(toks, a.p) = "." /\ Tok(toks, a.p + 1) = "NAME"
    THEN Trailers(toks, Parsed(Attribute(a.node, toks[a.p + 1].id), a.p + 2))
    ELSE IF Tok(toks, a.p) = "." THEN SyntaxError
    ELSE IF Tok(toks, a.p) = "(" THEN Trailers(toks, ParseCall(toks, a))
    ELSE a

\* The call whose `(` is the token at f.p, on the callee f.node.
ParseCall(toks, f) ==
    IF Tok(toks, f.p + 1) = ")" THEN Parsed(Call(f.node, << >>, 0), f.p + 2)
    ELSE IF Tok(toks, f.p + 1) \in {"*", "**"}
    THEN CallStep(toks, f, Tok(toks, f.p + 1), ParseSum(toks, f.p + 2))
    ELSE CallStep(toks, f, "", ParseSum(toks, f.p + 1))

ParseAtom(toks, p) ==
    IF Tok(toks, p) = "NAME" THEN Parsed(Name(toks[p].id), p + 1)
    ELSE IF Tok(toks, p) = "NUMBER" THEN Parsed(Constant(toks[p].v), p + 1)
    ELSE IF Tok(toks, p) = "..." THEN Parsed(Constant(EllipsisV), p + 1)
    ELSE IF Tok(toks, p) = "(" /\ Tok(toks, p + 1) = ")" THEN Parsed(Tuple, p + 2)
    ELSE IF Tok(toks, p) = "(" THEN GroupStep(toks, ParseSum(toks, p + 1))
    ELSE SyntaxError

\* ast.parse(expr, mode='eval'): the body of the Expression, or ok = FALSE
\* where it raises SyntaxError.
AstParse(s) ==
    LET t == Tokenize(s) IN
    IF ~t.ok THEN SyntaxError
    ELSE LET e == ParseSum(t.toks, 1) IN
         IF e.ok /\ e.p = Len(t.toks) + 1 THEN e ELSE SyntaxError

(***************************************************************************)
(* ALLOWED_OPERATORS: the functions of the operator module, on the values  *)
(* above.  An int or float result is exact or abstract as IntV and FloatV  *)
(* decide; arithmetic on an abstract number is left undetermined unless    *)
(* Python's outcome does not depend on the number.                         *)
(***************************************************************************)
ALLOWED_OPERATORS ==
    {"Add", "Sub", "Mult", "Div", "Pow", "USub", "UAdd", "Mod", "FloorDiv"}

\* floor(a / b), b # 0.
FloorQuot(a, b) == IF b > 0 THEN a \div b ELSE (-a) \div (-b)

\* The result n/d of an operation on l and r: an int when both are ints.
NumResult(l, r, n, d) ==
    IF l.kind = "int" /\ r.kind = "int" THEN IntV(n \div d) ELSE FloatV(n, d)

ZeroDivisionError == Raise("ZeroDivisionError")
TypeError == Raise("TypeError")
ValueError == Raise("ValueError")
OverflowError == Raise("OverflowError")

\* Division by an exact zero when the dividend is abstract: an int divisor
\* raises whatever the dividend; a float divisor first converts an int
\* dividend to float, which raises OverflowError for one too large.
AbstractByZero(l, r) ==
    IF r.kind = "int" \/ l.kind = "bigint" THEN ZeroDivisionError ELSE Unknown

\* A division that yields a number (an infinity) on a zero divisor.
truedivInfinity(l, r) ==
    IF ~(IsExact(l) /\ IsExact(r)) THEN
         IF IsZero(r) THEN SomeNum ELSE Unknown
    ELSE IF r.num = 0 THEN SomeNum
    ELSE LET n == l.num * r.den
             d == l.den * r.num
         IN  IF d > 0 THEN FloatV(n, d) ELSE FloatV(-n, -d)

\* op.truediv
truediv(l, r) ==
    IF ~(IsExact(l) /\ IsExact(r)) THEN
         IF IsZero(r) THEN AbstractByZero(l, r) ELSE Unknown
    ELSE IF r.num = 0 THEN ZeroDivisionError
    ELSE LET n == l.num * r.den
             d == l.den * r.num
         IN  IF d > 0 THEN FloatV(n, d) ELSE FloatV(-n, -d)

floordiv(l, r) ==
    IF ~(IsExact(l) /\ IsExact(r)) THEN
         IF IsZero(r) THEN AbstractByZero(l, r) ELSE Unknown
    ELSE IF r.num = 0 THEN ZeroDivisionError
    ELSE NumResult(l, r, FloorQuot(l.num * r.den, l.den * r.num), 1)

mod(l, r) ==
    IF ~(IsExact(l) /\ IsExact(r)) THEN
         IF IsZero(r) THEN AbstractByZero(l, r) ELSE Unknown
    ELSE IF r.num = 0 THEN ZeroDivisionError
    ELSE LET a == l.num * r.den
             b == r.num * l.den
         IN  NumResult(l, r, a - b * FloorQuot(a, b), l.den * r.den)

add(l, r) ==
    IF ~(IsExact(l) /\ IsExact(r)) THEN Unknown
    ELSE NumResult(l, r, l.num * r.den + r.num * l.den, l.den * r.den)

sub(l, r) ==
    IF ~(IsExact(l) /\ IsExact(r)) THEN Unknown
    ELSE NumResult(l, r, l.num * r.den - r.num * l.den, l.den * r.den)

mul(l, r) ==
    IF ~(IsExact(l) /\ IsExact(r)) THEN Unknown
    ELSE NumResult(l, r, l.num * r.num, l.den * r.den)

\* (n/d)^e for e >= 0 times an/ad, or ok = FALSE once the power leaves the
\* exact range.
RECURSIVE RatPowerFrom(_, _, _, _, _)
RatPowerFrom(n, d, e, an, ad) ==
    IF e = 0 THEN [ok |-> TRUE, n |-> an, d |-> ad]
    ELSE IF Abs(an * n) > 8 * MaxInt \/ ad * d > 8 * MaxInt
         THEN [ok |-> FALSE, n |-> 0, d |-> 1]
    ELSE RatPowerFrom(n, d, e - 1, an * n, ad * d)

RatPower(n, d, e) ==
    IF d = 1 /\ Abs(n) <= 1
    THEN [ok |-> TRUE, d |-> 1,
          n |-> IF e = 0 THEN 1 ELSE IF n = -1 /\ e % 2 = 0 THEN 1 ELSE n]
    ELSE RatPowerFrom(n, d, e, 1, 1)

\* pow(l, r) for an int exponent (a float exponent is left undetermined,
\* except that zero to a negative power raises).
pow(l, r) ==
    IF ~(IsExact(l) /\ IsExact(r)) THEN Unknown
    ELSE IF l.num = 0 /\ r.num < 0 THEN ZeroDivisionError
    ELSE IF r.kind # "int" THEN Unknown
    ELSE LET q == RatPower(l.num, l.den, Abs(r.num)) IN
         IF r.num >= 0 THEN
              IF q.ok THEN NumResult(l, r, q.n, q.d)
              ELSE IF l.kind = "int" THEN SomeNum ELSE Unknown
         ELSE IF ~q.ok THEN (IF l.kind = "int" THEN SomeNum ELSE Unknown)
         ELSE IF q.n > 0 THEN FloatV(q.d, q.n) ELSE FloatV(-q.d, -q.n)

neg(v) ==
    IF IsExact(v) THEN [v EXCEPT !.num = -v.num]
    ELSE IF v.kind \in {"bigint", "hugeint"} THEN [v EXCEPT !.num = -v.num]
    ELSE v

pos(v) == v

\* ALLOWED_OPERATORS[op_type](left, right): an operand that is no number
\* is an unsupported operand type.
ApplyBinary(op, l, r) ==
    IF ~(IsNumber(l) /\ IsNumber(r)) THEN TypeError
    ELSE CASE op = "Add" -> add(l, r)
           [] op = "Sub" -> sub(l, r)
           [] op = "Mult" -> mul(l, r)
           [] op = "Div" -> truediv(l, r)
           [] op = "Pow" -> pow(l, r)
           [] op = "Mod" -> mod(l, r)
           [] op = "FloorDiv" -> floordiv(l, r)

\* ALLOWED_OPERATORS[op_type](operand)
ApplyUnary(op, v) ==
    IF ~IsNumber(v) THEN TypeError
    ELSE CASE op = "USub" -> neg(v)
           [] op = "UAdd" -> pos(v)

(***************************************************************************)
(* MATH_FUNCS: the names the evaluator resolves, and what each is bound    *)
(* to.  A name is the sequence of its characters.                          *)
(***************************************************************************)
MATH_FUNCS ==
    {<<"s", "i", "n">>, <<"c", "o", "s">>, <<"t", "a", "n">>,
     <<"a", "s", "i", "n">>, <<"a", "c", "o", "s">>, <<"a", "t", "a", "n">>,
     <<"s", "q", "r", "t">>, <<"l", "o", "g">>, <<"l", "n">>,
     <<"l", "o", "g", "1", "0">>, <<"a", "b", "s">>, <<"f", "a", "c", "t">>,
     FactorialName, <<"p", "i">>, <<"e">>, <<"p", "o", "w">>}

\* The entries bound to a float, math.pi and math.e; the rest are callables.
MathConstants == {<<"p", "i">>, <<"e">>}

\* MATH_FUNCS[name]
MathFuncs(name) == IF name \in MathConstants THEN SomeNum ELSE FuncV(name)

\* n! for an exact n >= 0: above 20! the value does not fit a C long.
RECURSIVE FactorialOf(_)
FactorialOf(n) ==
    IF n > 20 THEN HugeInt(1)
    ELSE IF n <= 1 THEN IntV(1)
    ELSE LET f == FactorialOf(n - 1) IN
         IF f.kind = "int" THEN IntV(n * f.num) ELSE BigInt(1)

\* math.factorial(x): x must be an int that is not negative and fits a C
\* long.
MathFactorial(x) ==
    IF ~IsNumber(x) \/ x.kind = "float" THEN TypeError
    ELSE IF x.kind = "num" THEN Unknown
    ELSE IF x.num < 0 THEN ValueError
    ELSE IF x.kind = "hugeint" THEN OverflowError
    ELSE IF x.kind = "bigint" THEN HugeInt(1)
    ELSE FactorialOf(x.num)

\* A math function of a real argument: a float, ValueError outside the
\* domain, OverflowError for an int too large to convert to float.
MathReal(x, inDomain) ==
    IF ~IsNumber(x) THEN TypeError
    ELSE IF x.kind \in {"num", "hugeint"} THEN Unknown
    ELSE IF inDomain THEN SomeNum
    ELSE ValueError

\* math.log, math.log10: an int argument is never too large.
MathLog(x) ==
    IF ~IsNumber(x) THEN TypeError
    ELSE IF x.kind = "num" THEN Unknown
    ELSE IF x.num > 0 THEN SomeNum
    ELSE ValueError

\* abs(x)
BuiltinAbs(x) ==
    IF ~IsNumber(x) THEN TypeError
    ELSE IF x.kind = "num" THEN SomeNum
    ELSE [x EXCEPT !.num = Abs(x.num)]

\* MATH_FUNCS[name] called on args for a name of MATH_FUNCS.
CallMathFunc(name, args) ==
    LET n == Len(args)
        x == args[1]
    IN  IF name \in MathConstants THEN TypeError   \* a float is not callable
        ELSE IF name = <<"p", "o", "w">> THEN
             IF n \in {2, 3} THEN Unknown ELSE TypeError
        ELSE IF name = <<"l", "n">> THEN
             IF n = 1 THEN MathLog(x) ELSE IF n = 2 THEN Unknown ELSE TypeError
        ELSE IF n # 1 THEN TypeError
        ELSE IF name \in {FactorialName, <<"f", "a", "c", "t">>} THEN MathFactorial(x)
        ELSE IF name \in {<<"l", "o", "g">>, <<"l", "o", "g", "1", "0">>} THEN MathLog(x)
        ELSE IF name = <<"a", "b", "s">> THEN BuiltinAbs(x)
        ELSE IF name = <<"s", "q", "r", "t">> THEN MathReal(x, x.num >= 0)
        ELSE IF name \in {<<"a", "s", "i", "n">>, <<"a", "c", "o", "s">>}
             THEN MathReal(x, IsExact(x) /\ Abs(x.num) <= x.den)
        ELSE MathReal(x, TRUE)

(***************************************************************************)
(* EvalVisitor.visit.  A visit yields the value (or the exception raised)  *)
(* and the log of what it applied on the way: one entry per execution of   *)
(* ALLOWED_OPERATORS[op_type](...) and of MATH_FUNCS[name] called on args, in      *)
(* order.  An exception ends the walk where it is raised.                  *)
(***************************************************************************)
Applied(what, op, fn, args, res) ==
    [what |-> what, op |-> op, fn |-> fn, args |-> args, res |-> res]

Visited(val, log) == [val |-> val, log |-> log]

\* The walk goes no further: an exception, or an outcome left undetermined.
Stops(v) == v.kind \in {"err", "unknown"}

\* A test of the callee that does not look the name up.
IsAnyName(func) == func.type = "Name"

\* isinstance(func, ast.Name) and func.id in MATH_FUNCS
IsAllowedCallee(func) == func.type = "Name" /\ func.id \in MATH_FUNCS

RECURSIVE Visit(_), VisitArgs(_, _, _)

\* [self.visit(a) for a in node.args], from the n-th argument on: the
\* values in order, or the exception of the first argument that raises.
VisitArgs(args, n, done) ==
    IF n > Len(args) THEN done
    ELSE LET a == Visit(args[n]) IN
         IF Stops(a.val)
         THEN [stopped |-> TRUE, vals |-> done.vals, val |-> a.val,
               log |-> done.log \o a.log]
         ELSE VisitArgs(args, n + 1,
                        [done EXCEPT !.vals = Append(@, a.val), !.log = @ \o a.log])

Visit(node) ==
    IF node.type = "BinOp" THEN
         LET left == Visit(node.left) IN
         IF Stops(left.val) THEN left
         ELSE LET right == Visit(node.right) IN
              IF Stops(right.val) THEN Visited(right.val, left.log \o right.log)
              ELSE IF node.op \in ALLOWED_OPERATORS THEN
                   LET res == ApplyBinary(node.op, left.val, right.val) IN
                   Visited(res, left.log \o right.log \o
                       <<Applied("op", node.op, << >>, <<left.val, right.val>>, res)>>)
              ELSE Visited(ValueError, left.log \o right.log)
    ELSE IF node.type = "UnaryOp" THEN
         LET operand == Visit(node.operand) IN
         IF Stops(operand.val) THEN operand
         ELSE IF node.op \in ALLOWED_OPERATORS THEN
              LET res == ApplyUnary(node.op, operand.val) IN
              Visited(res, operand.log \o
                  <<Applied("op", node.op, << >>, <<operand.val>>, res)>>)
         ELSE Visited(ValueError, operand.log)
    ELSE IF node.type = "Constant" THEN Visited(node.value, << >>)
    ELSE IF node.type = "Call" THEN
         IF IsAllowedCallee(node.func) THEN
              LET args == VisitArgs(node.args, 1,
                      [stopped |-> FALSE, vals |-> << >>, val |-> Unknown, log |-> << >>])
              IN  IF args.stopped THEN Visited(args.val, args.log)
                  ELSE LET res == CallMathFunc(node.func.id, args.vals) IN
                       Visited(res, args.log \o
                           <<Applied("call", "", node.func.id, args.vals, res)>>)
         ELSE Visited(ValueError, << >>)   \* "Function calls are restricted"
    ELSE IF node.type = "Name" THEN
         IF node.id \in MATH_FUNCS THEN Visited(MathFuncs(node.id), << >>)
         ELSE Visited(ValueError, << >>)
    ELSE Visited(ValueError, << >>)        \* "Expression element ... not allowed"

(***************************************************************************)
(* safe_eval(expr) as a state machine: pc is the place in the function.    *)
(***************************************************************************)
VARIABLES
    input,      \* the argument safe_eval was called with
    expr,       \* the local expr
    i,          \* the loop index
    out,        \* the text emitted so far
    consumed,   \* the indices ch = expr[i] has read, in order
    node,       \* what ast.parse returned
    result,     \* what safe_eval returns or raises
    trace,      \* what the visit applied
    pc

vars == <<input, expr, i, out, consumed, node, result, trace, pc>>

\* The characters inputs are drawn from one by one.
Chars == {"(", ")", "!", "^", "3", ".", "_"}

\* The pieces inputs are put together from.
Frags ==
    {<<"3">>, <<"0">>, <<"2">>, <<"/">>, <<"/", "/">>, <<"%">>, <<"-">>, <<"!">>,
     <<"(">>, <<")">>, <<"l", "n">>, <<"p", "i">>, <<"f", "o", "o">>}

CharInputs == UNION {[1..n -> Chars] : n \in 0..MaxLen}

RECURSIVE FragInputsOf(_)
FragInputsOf(n) ==
    IF n = 0 THEN {<< >>}
    ELSE LET shorter == FragInputsOf(n - 1) IN
         shorter \cup {s \o f : s \in shorter, f \in Frags}

FragInputs == FragInputsOf(MaxFrags)

\* What a shorter input is wrapped in: a factorial of it in parentheses,
\* a factorial of its factorial, and a call of a name with it as argument.
Wrappers ==
    {<< <<"(">>, <<")", "!">> >>,
     << <<"(">>, <<"!", ")", "!">> >>,
     << <<"l", "n", "(">>, <<")">> >>,
     << <<"f", "o", "o", "(">>, <<")">> >>}

WrappedInputs == {w[1] \o s \o w[2] : w \in Wrappers, s \in FragInputsOf(MaxFrags - 1)}

Inputs == CharInputs \cup FragInputs \cup WrappedInputs

NotYet == V("none", 0, 1, << >>, "")

Init ==
    /\ input \in Inputs
    /\ expr = input
    /\ i = 0
    /\ out = << >>
    /\ consumed = << >>
    /\ node = NoNode
    /\ result = NotYet
    /\ trace = << >>
    /\ pc = "replace"

\* expr = expr.replace('^', '**'); i = 0; out = ''
Replace ==
    /\ pc = "replace"
    /\ expr' = ReplacePow(expr)
    /\ i' = 0
    /\ out' = << >>
    /\ pc' = "loop"
    /\ UNCHANGED <<input, consumed, node, result, trace>>

\* An index that does not advance.
NextIndexStuck(n) == n

\* i += 1
NextIndex(n) == n + 1

\* One iteration of the loop with ch == '!'.
LoopFactorial ==
    /\ pc = "loop"
    /\ i < Len(expr)
    /\ PyIndex(expr, i) = "!"
    /\ consumed' = Append(consumed, i)
    /\ LET r == Factorial(out) IN
       IF r.raised
       THEN /\ pc' = "done"
            /\ result' = Raise(IndexError)
            /\ UNCHANGED <<i, out>>
       ELSE /\ out' = r.out
            /\ i' = NextIndex(i)
            /\ UNCHANGED <<pc, result>>
    /\ UNCHANGED <<input, expr, node, trace>>

\* One iteration of the loop with any other ch: out += ch.
LoopAppend ==
    /\ pc = "loop"
    /\ i < Len(expr)
    /\ PyIndex(expr, i) # "!"
    /\ consumed' = Append(consumed, i)
    /\ out' = Append(out, PyIndex(expr, i))
    /\ i' = NextIndex(i)
    /\ UNCHANGED <<input, expr, node, result, trace, pc>>

\* The loop ends: expr = out.
LoopExit ==
    /\ pc = "loop"
    /\ ~(i < Len(expr))
    /\ expr' = out
    /\ pc' = "parse"
    /\ UNCHANGED <<input, i, out, consumed, node, result, trace>>

\* node = ast.parse(expr, mode='eval'); a SyntaxError leaves safe_eval.
Parse ==
    /\ pc = "parse"
    /\ LET parsed == AstParse(expr) IN
       IF parsed.ok
       THEN /\ node' = parsed.node
            /\ pc' = "visit"
            /\ UNCHANGED result
       ELSE /\ result' = Raise("SyntaxError")
            /\ pc' = "done"
            /\ UNCHANGED node
    /\ UNCHANGED <<input, expr, i, out, consumed, trace>>

\* return visitor.visit(node)
Evaluate ==
    /\ pc = "visit"
    /\ LET v == Visit(node) IN
       /\ result' = v.val
       /\ trace' = v.log
    /\ pc' = "done"
    /\ UNCHANGED <<input, expr, i, out, consumed, node>>

Next == Replace \/ LoopFactorial \/ LoopAppend \/ LoopExit \/ Parse \/ Evaluate

Spec == Init /\ [][Next]_vars

(***************************************************************************)
(* Properties                                                              *)
(***************************************************************************)
Done == pc = "done"

\* safe_eval got as far as parsing: the desugaring pass is over.
Desugared == pc \in {"parse", "visit", "done"} /\ result # Raise(IndexError)

Has(s, c) == \E n \in 1..Len(s) : s[n] = c

\* s is one decimal integer literal.
IsIntLiteral(s) ==
    /\ s # << >>
    /\ \A n \in 1..Len(s) : s[n] \in Digits
    /\ Tokenize(s).ok

\* C1: for an operand token n, "n!!" evaluates to factorial(factorial(n));
\* "3!!" evaluates to 720.
C1_ChainedFactorial ==
    Done =>
        \A n \in 1..Len(input) :
            (/\ Len(input) = n + 2
             /\ input[n + 1] = "!"
             /\ input[n + 2] = "!"
             /\ IsIntLiteral(SubSeq(input, 1, n)))
            => /\ result = MathFactorial(MathFactorial(IntLiteral(SubSeq(input, 1, n))))
               /\ input = <<"3", "!", "!">> => result = IntV(720)

\* C2: whatever the input, the text the desugaring pass hands to the parser
\* holds no `!` and no `^`.
C2_NoMarkersLeft ==
    /\ ~Has(out, "!") /\ ~Has(out, "^")
    /\ Desugared => ~Has(expr, "!") /\ ~Has(expr, "^")

C2_Witness ==
    /\ pc = "parse"
    /\ Has(input, "!") /\ Has(input, "^")
    /\ Len(expr) > Len(input)

C4_BareCallableFails ==
    (/\ Done
     /\ node.type = "Name"
     /\ node.id \in MATH_FUNCS \ {<<"p", "i">>, <<"e">>})
    => IsFailure(result)

\* C5: the outcome of safe_eval is a number or a failure, never another
\* kind of value.
C5_NumberOrFailure ==
    Done => IsNumber(result) \/ IsFailure(result) \/ result = Unknown

\* Some call in the tree has a callee that is not a bare name of the table.
RECURSIVE HasRestrictedCall(_)
HasRestrictedCall(n) ==
    CASE n.type = "BinOp" -> HasRestrictedCall(n.left) \/ HasRestrictedCall(n.right)
      [] n.type = "UnaryOp" -> HasRestrictedCall(n.operand)
      [] n.type = "Attribute" -> HasRestrictedCall(n.value)
      [] n.type = "Starred" -> HasRestrictedCall(n.value)
      [] n.type = "Call" ->
            \/ ~(n.func.type = "Name" /\ n.func.id \in MATH_FUNCS)
            \/ HasRestrictedCall(n.func)
            \/ \E k \in 1..Len(n.args) : HasRestrictedCall(n.args[k])
      [] OTHER -> FALSE

\* C6: a call whose callee is not a bare name of the function table is a
\* failure and applies nothing: as the whole expression it raises with no
\* operator or function applied, its arguments unvisited; anywhere in the
\* expression it makes the outcome a failure; and only names of the table
\* are ever applied.
C6_RestrictedCall ==
    Done =>
        /\ (node.type = "Call"
              /\ ~(node.func.type = "Name" /\ node.func.id \in MATH_FUNCS))
           => result = Raise("ValueError") /\ trace = << >>
        /\ (HasRestrictedCall(node) /\ result # Unknown) => IsFailure(result)
        /\ \A n \in 1..Len(trace) :
              trace[n].what = "call" => trace[n].fn \in MATH_FUNCS

C6_Witness ==
    /\ Done
    /\ node.type = "Call"
    /\ node.func.type = "Name"
    /\ node.func.id = <<"f", "o", "o">>
    /\ Len(node.args) = 1
    /\ node.args[1].type = "UnaryOp"
    /\ result = Raise("ValueError")
    /\ trace = << >>

\* A `!` at the start of the input or right after an operator character.
HasEmptyOperandMarker(s) ==
    \E n \in 1..Len(s) :
        /\ s[n] = "!"
        /\ n = 1 \/ s[n - 1] \in {"+", "-", "*", "/", "%", "^"}

\* C7: a factorial marker with an empty operand is rejected by the parser as
\* a syntax error, and no function is invoked for it.
C7_EmptyOperandSyntaxError ==
    (Done /\ HasEmptyOperandMarker(input))
    => result = Raise("SyntaxError") /\ trace = << >>

\* C8: factorial and fact reject every negative argument, every non-integral
\* argument and every argument beyond a fixed bound (here: beyond the
\* integers the model keeps exactly) with a failure, so that no computation
\* on an arbitrarily large argument is started.
C8_FactorialRejects ==
    \A n \in 1..Len(trace) :
        LET a == trace[n] IN
        (/\ a.what = "call"
         /\ a.fn \in {FactorialName, <<"f", "a", "c", "t">>}
         /\ Len(a.args) = 1
         /\ \/ a.args[1].kind \in {"int", "bigint", "hugeint"} /\ a.args[1].num < 0
            \/ a.args[1].kind = "float"
            \/ a.args[1].kind \in {"bigint", "hugeint"})
        => IsFailure(a.res)

\* The depth of the backward scan once it has read s[m..Len(s)].
ScanDepth(s, m) ==
    Cardinality({x \in m..Len(s) : s[x] = ")"})
        - Cardinality({x \in m..Len(s) : s[x] = "("})

\* The `(` at k matches the `)` that ends s.
MatchesLast(s, k) ==
    /\ ScanDepth(s, k) = 0
    /\ \A m \in (k + 1)..Len(s) : ScanDepth(s, m) # 0

IsTokenChar(c) == c \in Digits \cup Letters \cup {".", "_"}

\* The length of the longest run of token characters that ends s.
TrailingRun(s) ==
    CHOOSE t \in 0..Len(s) :
        /\ \A x \in (Len(s) - t + 1)..Len(s) : IsTokenChar(s[x])
        /\ t = Len(s) \/ ~IsTokenChar(s[Len(s) - t])

\* What C9 says a `!` makes of the text o emitted so far.
Rewritten(o, o2) ==
    IF o # << >> /\ o[Len(o)] = ")"
    THEN \A k \in 1..Len(o) :
            MatchesLast(o, k)
            => o2 = SubSeq(o, 1, k - 1) \o FactorialName \o SubSeq(o, k, Len(o))
    ELSE LET t == TrailingRun(o) IN
         o2 = SubSeq(o, 1, Len(o) - t) \o FactorialName \o <<"(">>
                 \o SubSeq(o, Len(o) - t + 1, Len(o)) \o <<")">>

\* C9: a `!` after a `)` with a matching `(` puts `factorial` before the
\* parenthesized span and adds no parentheses; a `!` after anything else
\* wraps the longest trailing run of alphanumeric, `.` and `_` characters
\* in `factorial(...)`; the text before the operand is unchanged.
C9_FactorialRewrite ==
    [][(pc = "loop" /\ i < Len(expr) /\ expr[i + 1] = "!" /\ i' = i + 1)
        => Rewritten(out, out')]_vars

C9_Witness ==
    /\ input = <<"(", "3", ")", "!">>
    /\ pc = "parse"
    /\ expr = FactorialName \o <<"(", "3", ")">>

\* C10: the desugaring loop raises nothing and reads every character of the
\* text exactly once, in order, so it ends after as many iterations as the
\* text is long: also when a `!` follows an unmatched `)` or comes first.
C10_LoopTerminates ==
    /\ result # Raise(IndexError)
    /\ \A n \in 1..Len(consumed) : consumed[n] = n - 1
    /\ pc = "loop" => Len(consumed) = i /\ i <= Len(expr)
    /\ Desugared => Len(consumed) = Len(ReplacePow(input))

C10_Witness ==
    /\ input = <<"!", ")", "!">>
    /\ pc = "parse"
    /\ Len(consumed) = 3

====
